---- MODULE Spec2Model ----
(***************************************************************************)
(* A model of mavconn.py: the MAVLinkConnection engine (handler registry,  *)
(* lifecycle flag, timer heap with its condition variable, timer_work) and *)
(* the Timer entries it schedules.                                         *)
(***************************************************************************)
EXTENDS Naturals, Integers, Sequences, FiniteSets

\* ------------------------------------------------------------------ bounds
\* Deepest handler stack the callers build for one message type.
MaxStack == 2
\* Last instant of the clock.
MaxTime == 3
\* Longest timer period the callers pass to add_timer.
MaxPeriod == 2
\* Most messages the transport holds undelivered.
MaxInbox == 1

\* ------------------------------------------------------------------ inputs
\* Message-type identifiers passed to the registry; "" is the empty string.
MsgTypes == {"", "HEARTBEAT"}
\* clear_handler's default argument (message_name=None).
None == "None"
\* Handlers are opaque callables; hRaise stands for one that raises when run.
Handlers == {"h1", "hRaise"}
RaisingHandlers == {"hRaise"}
\* Threads that each call add_timer once; a thread's timer carries its id.
Adders == {"t1", "t2", "t3", "t4"}
\* The add_timer callers of the engine specifications (the timer-queue
\* specification lets all of Adders call).
EngineAdders == {"t1", "t2"}
Periods == 1..MaxPeriod
\* The value of current_timer before timer_work has popped an entry.
NoTimer == [id |-> "none", period |-> 0, handler |-> "none", next_time |-> 0]

VARIABLES
    _stacks,        \* self._stacks: message type -> list of handlers (keys present only)
    _timers,        \* self._timers: the heap array of Timer entries
    _continue,      \* self._continue
    continueOwner,  \* holder of self._continue_lock
    cvOwner,        \* holder of the lock of self._timers_cv
    now,            \* datetime.datetime.now()
    tw_pc,          \* where the thread running timer_work is
    current_timer,  \* timer_work's local current_timer
    adder_pc,       \* where each add_timer caller is
    stop_pc,        \* where the stop() caller is
    ret,            \* how the last start() / with-statement ended
    mavInbox,       \* messages the transport (self.mav) holds for the engine
    executor,       \* the worker pool: "none" until one is created
    submitted,      \* work handed to the worker pool: [handler, for] items, in order
    pops,           \* per timer: times timer_work popped it
    handled,        \* per timer: times Timer.handle re-armed it
    lifoPushed,     \* per type: handlers pushed since construction (observer)
    lifoPopped,     \* per type: results of the pops that followed (observer)
    lifoValid       \* per type: the calls so far are pushes followed by pops

vars == <<_stacks, _timers, _continue, continueOwner, cvOwner, now, tw_pc,
          current_timer, adder_pc, stop_pc, ret, mavInbox, executor, submitted, pops,
          handled, lifoPushed, lifoPopped, lifoValid>>

registryVars == <<_stacks, lifoPushed, lifoPopped, lifoValid>>
timerVars == <<_timers, cvOwner, now, tw_pc, current_timer, adder_pc, pops, handled>>
flagVars == <<_continue, continueOwner, stop_pc>>
poolVars == <<executor, submitted>>

\* ------------------------------------------------------------ the registry
\* defaultdict(list).__getitem__: the list stored under t, [] when t is missing.
StackOf(stacks, t) == IF t \in DOMAIN stacks THEN stacks[t] ELSE <<>>

\* stacks with key t bound to s (the key is created when missing).
Put(stacks, t, s) == [k \in DOMAIN stacks \cup {t} |-> IF k = t THEN s ELSE stacks[k]]

\* dict.pop(t) on a present key.
Remove(stacks, t) == [k \in DOMAIN stacks \ {t} |-> stacks[k]]

\* A wrong list.pop: takes the oldest element.
ListPopFront(s) == [val |-> s[1], rest |-> SubSeq(s, 2, Len(s))]

\* list.pop() on a non-empty list: the last element and the list without it.
ListPop(s) == [val |-> s[Len(s)], rest |-> SubSeq(s, 1, Len(s) - 1)]

\* pop_handler's outcome: the handler returned, or the KeyError it raises, and
\* the registry afterwards (subscripting the defaultdict creates a missing key).
PopOutcome(stacks, t) ==
    IF StackOf(stacks, t) = <<>>
    THEN [val |-> "KeyError", stacks |-> Put(stacks, t, <<>>)]
    ELSE [val |-> ListPop(stacks[t]).val,
          stacks |-> Put(stacks, t, ListPop(stacks[t]).rest)]

\* Python truth value of clear_handler's argument: None and "" are false.
Truthy(message_name) == message_name /= None /\ message_name /= ""

\* clear_handler's effect on the registry; dict.pop of a missing key raises
\* KeyError and changes nothing.
ClearOutcome(stacks, message_name) ==
    IF Truthy(message_name)
    THEN IF message_name \in DOMAIN stacks THEN Remove(stacks, message_name) ELSE stacks
    ELSE << >>

AllFalse == [t \in MsgTypes |-> FALSE]
NoLog == [t \in MsgTypes |-> <<>>]

push_handler(message_name, handler) ==
    /\ Len(StackOf(_stacks, message_name)) < MaxStack
    /\ _stacks' = Put(_stacks, message_name, Append(StackOf(_stacks, message_name), handler))
    /\ IF lifoValid[message_name] /\ lifoPopped[message_name] = <<>>
       THEN /\ lifoPushed' = [lifoPushed EXCEPT ![message_name] = Append(@, handler)]
            /\ UNCHANGED <<lifoPopped, lifoValid>>
       ELSE /\ lifoValid' = [lifoValid EXCEPT ![message_name] = FALSE]
            /\ lifoPushed' = [lifoPushed EXCEPT ![message_name] = <<>>]
            /\ lifoPopped' = [lifoPopped EXCEPT ![message_name] = <<>>]
    /\ UNCHANGED <<timerVars, flagVars, ret, mavInbox, poolVars>>

pop_handler(message_name) ==
    /\ _stacks' = PopOutcome(_stacks, message_name).stacks
    /\ IF /\ lifoValid[message_name]
          /\ Len(lifoPopped[message_name]) <= Len(lifoPushed[message_name])
       THEN /\ lifoPopped' = [lifoPopped EXCEPT ![message_name] =
                                 Append(@, PopOutcome(_stacks, message_name).val)]
            /\ UNCHANGED <<lifoPushed, lifoValid>>
       ELSE /\ lifoValid' = [lifoValid EXCEPT ![message_name] = FALSE]
            /\ lifoPushed' = [lifoPushed EXCEPT ![message_name] = <<>>]
            /\ lifoPopped' = [lifoPopped EXCEPT ![message_name] = <<>>]
    /\ UNCHANGED <<timerVars, flagVars, ret, mavInbox, poolVars>>

clear_handler(message_name) ==
    /\ _stacks' = ClearOutcome(_stacks, message_name)
    /\ lifoValid' = AllFalse
    /\ lifoPushed' = NoLog
    /\ lifoPopped' = NoLog
    /\ UNCHANGED <<timerVars, flagVars, ret, mavInbox, poolVars>>

\* ---------------------------------------------------------------- lifecycle
\* start(): the name ThreadPoolExecutor is not defined in the module (only
\* concurrent.futures is imported), so the first statement raises NameError;
\* no pool exists, no thread is created or started, _continue is not written.
StartOutcome == [err |-> "NameError", launched |-> FALSE]

\* A wrong start: also writes the running flag.
start_sets_running ==
    /\ ret' = [op |-> "start", err |-> StartOutcome.err]
    /\ _continue' = TRUE
    /\ UNCHANGED <<registryVars, timerVars, continueOwner, stop_pc, mavInbox, poolVars>>

start ==
    /\ ret' = [op |-> "start", err |-> StartOutcome.err]
    /\ UNCHANGED <<registryVars, timerVars, flagVars, mavInbox, poolVars>>

\* stop(): takes _continue_lock ...
stop_lock ==
    /\ stop_pc = "idle"
    /\ continueOwner = "none"
    /\ continueOwner' = "stop"
    /\ stop_pc' = "locked"
    /\ UNCHANGED <<registryVars, timerVars, _continue, ret, mavInbox, poolVars>>

\* A wrong stop: also empties the timer queue.
stop_set_drops_timers ==
    /\ stop_pc = "locked"
    /\ _continue' = FALSE
    /\ continueOwner' = "none"
    /\ stop_pc' = "idle"
    /\ _timers' = << >>
    /\ UNCHANGED <<registryVars, cvOwner, now, tw_pc, current_timer, adder_pc,
                   pops, handled, ret, mavInbox, poolVars>>

\* ... writes False and releases the lock.
stop_set ==
    /\ stop_pc = "locked"
    /\ _continue' = FALSE
    /\ continueOwner' = "none"
    /\ stop_pc' = "idle"
    /\ UNCHANGED <<registryVars, timerVars, ret, mavInbox, poolVars>>

\* with MAVLinkConnection(...) as c: body.  __enter__ calls start(); when it
\* raises, the with-statement propagates the error and never calls __exit__.
\* Otherwise the body runs and __exit__ calls stop().
with_statement ==
    /\ IF StartOutcome.err /= "none"
       THEN /\ ret' = [op |-> "with", err |-> StartOutcome.err]
            /\ UNCHANGED flagVars
       ELSE /\ continueOwner = "none"
            /\ ret' = [op |-> "with", err |-> "none"]
            /\ _continue' = FALSE
            /\ UNCHANGED <<continueOwner, stop_pc>>
    /\ UNCHANGED <<registryVars, timerVars, mavInbox, poolVars>>

\* The transport (self.mav) has one more message, of type t, for the engine.
transport_deliver(t) ==
    /\ Len(mavInbox) < MaxInbox
    /\ mavInbox' = Append(mavInbox, t)
    /\ UNCHANGED <<registryVars, timerVars, flagVars, ret, poolVars>>

\* ------------------------------------------------------------------- Timer
\* Timer.__init__: the first due time is the construction time plus the period.
Timer(id, period, handler) ==
    [id |-> id, period |-> period, handler |-> handler, next_time |-> now + period]

\* Timer.__lt__
Lt(a, b) == a.next_time < b.next_time

\* heapq._siftdown with 1-based positions: move newitem up from pos towards
\* startpos while it is smaller than its parent.
RECURSIVE SiftDown(_, _, _, _)
SiftDown(heap, startpos, pos, newitem) ==
    IF pos > startpos /\ Lt(newitem, heap[pos \div 2])
    THEN SiftDown([heap EXCEPT ![pos] = heap[pos \div 2]], startpos, pos \div 2, newitem)
    ELSE [heap EXCEPT ![pos] = newitem]

\* A wrong heappush: appends without restoring the heap order.
HeapPushNoSift(heap, item) == Append(heap, item)

\* heapq.heappush
heappush(heap, item) ==
    SiftDown(Append(heap, item), 1, Len(heap) + 1, item)

\* The loop of heapq._siftup: bubble the smaller child up until a leaf is hit;
\* yields the heap and the leaf position reached.
RECURSIVE SiftUpLoop(_, _)
SiftUpLoop(heap, pos) ==
    IF 2 * pos <= Len(heap)
    THEN LET childpos == 2 * pos
             rightpos == childpos + 1
             c == IF rightpos <= Len(heap) /\ ~Lt(heap[childpos], heap[rightpos])
                  THEN rightpos ELSE childpos
         IN  SiftUpLoop([heap EXCEPT ![pos] = heap[c]], c)
    ELSE [heap |-> heap, pos |-> pos]

\* heapq._siftup
SiftUp(heap, pos) ==
    LET r == SiftUpLoop(heap, pos)
    IN  SiftDown(r.heap, pos, r.pos, heap[pos])

\* heapq.heappop on a non-empty heap: the item returned and the heap left.
heappop(heap) ==
    LET lastelt == heap[Len(heap)]
        rest == SubSeq(heap, 1, Len(heap) - 1)
    IN  IF rest /= << >>
        THEN [item |-> rest[1], heap |-> SiftUp([rest EXCEPT ![1] = lastelt], 1)]
        ELSE [item |-> lastelt, heap |-> rest]

\* A wrong notify: wakes nobody.
NotifyNobody(pc) == pc

\* Condition.notify(): wakes the thread waiting on _timers_cv, if there is one.
Notify(pc) == IF pc = "waiting" THEN "notified" ELSE pc

\* --------------------------------------------------------------- add_timer
\* add_timer(period, handler) called by thread a: enters `with self._timers_cv`.
add_timer_lock(a, period, handler) ==
    /\ adder_pc[a].at = "idle"
    /\ cvOwner = "none"
    /\ now + period <= MaxTime
    /\ cvOwner' = a
    /\ adder_pc' = [adder_pc EXCEPT ![a] = [at |-> "locked", period |-> period, handler |-> handler]]
    /\ UNCHANGED <<registryVars, flagVars, _timers, now, tw_pc, current_timer,
                   pops, handled, ret, mavInbox, poolVars>>

\* Under the lock: construct the Timer, heappush it, notify, leave the block.
add_timer_push(a) ==
    /\ adder_pc[a].at = "locked"
    /\ _timers' = heappush(_timers, Timer(a, adder_pc[a].period, adder_pc[a].handler))
    /\ tw_pc' = Notify(tw_pc)
    /\ cvOwner' = "none"
    /\ adder_pc' = [adder_pc EXCEPT ![a].at = "done"]
    /\ UNCHANGED <<registryVars, flagVars, now, current_timer,
                   pops, handled, ret, mavInbox, poolVars>>

\* -------------------------------------------------------------- timer_work
\* A thread begins to run timer_work (threading.Thread(target=self.timer_work)).
timer_work_run ==
    /\ tw_pc = "idle"
    /\ tw_pc' = "get_cont_val"
    /\ UNCHANGED <<registryVars, flagVars, _timers, cvOwner, now, current_timer,
                   adder_pc, pops, handled, ret, mavInbox, poolVars>>

\* get_cont_val(): takes _continue_lock ...
get_cont_val_lock ==
    /\ tw_pc = "get_cont_val"
    /\ continueOwner = "none"
    /\ continueOwner' = "tw"
    /\ tw_pc' = "cont_locked"
    /\ UNCHANGED <<registryVars, _continue, stop_pc, _timers, cvOwner, now,
                   current_timer, adder_pc, pops, handled, ret, mavInbox, poolVars>>

\* A wrong timer_work: enters the body whatever get_cont_val returned.
get_cont_val_ignored ==
    /\ tw_pc = "cont_locked"
    /\ continueOwner' = "none"
    /\ tw_pc' = "cv_lock"
    /\ UNCHANGED <<registryVars, _continue, stop_pc, _timers, cvOwner, now,
                   current_timer, adder_pc, pops, handled, ret, mavInbox, poolVars>>

\* ... and returns _continue; `if get_cont_val():` enters the body or returns.
get_cont_val_return ==
    /\ tw_pc = "cont_locked"
    /\ continueOwner' = "none"
    /\ tw_pc' = IF _continue THEN "cv_lock" ELSE "done"
    /\ UNCHANGED <<registryVars, _continue, stop_pc, _timers, cvOwner, now,
                   current_timer, adder_pc, pops, handled, ret, mavInbox, poolVars>>

\* `with self._timers_cv:` (first block), and the re-acquisition of the lock by
\* a notified Condition.wait.
timer_work_lock ==
    /\ tw_pc \in {"cv_lock", "notified"}
    /\ cvOwner = "none"
    /\ cvOwner' = "tw"
    /\ tw_pc' = "wait_for"
    /\ UNCHANGED <<registryVars, flagVars, _timers, now, current_timer,
                   adder_pc, pops, handled, ret, mavInbox, poolVars>>

\* wait_for(timer_status) finds the heap empty: wait() releases the lock and blocks.
timer_work_wait ==
    /\ tw_pc = "wait_for"
    /\ _timers = << >>
    /\ cvOwner' = "none"
    /\ tw_pc' = "waiting"
    /\ UNCHANGED <<registryVars, flagVars, _timers, now, current_timer,
                   adder_pc, pops, handled, ret, mavInbox, poolVars>>

\* wait_for(timer_status) finds the heap non-empty: heappop, leave the block.
timer_work_pop ==
    /\ tw_pc = "wait_for"
    /\ _timers /= << >>
    /\ current_timer' = heappop(_timers).item
    /\ _timers' = heappop(_timers).heap
    /\ pops' = [pops EXCEPT ![heappop(_timers).item.id] = @ + 1]
    /\ cvOwner' = "none"
    /\ tw_pc' = "wait_time"
    /\ UNCHANGED <<registryVars, flagVars, now, adder_pc, handled, ret, mavInbox, poolVars>>

\* Timer.wait_time: delta_time = _next_time - now; time.sleep raises ValueError
\* on a negative length, which ends timer_work; otherwise the thread sleeps.
wait_time ==
    /\ tw_pc = "wait_time"
    /\ tw_pc' = IF current_timer.next_time - now < 0 THEN "ValueError" ELSE "sleeping"
    /\ UNCHANGED <<registryVars, flagVars, _timers, cvOwner, now, current_timer,
                   adder_pc, pops, handled, ret, mavInbox, poolVars>>

\* time.sleep returns, no sooner than the due time.
sleep_return ==
    /\ tw_pc = "sleeping"
    /\ now >= current_timer.next_time
    /\ tw_pc' = "rearm"
    /\ UNCHANGED <<registryVars, flagVars, _timers, cvOwner, now, current_timer,
                   adder_pc, pops, handled, ret, mavInbox, poolVars>>

\* A wrong re-arm: the next due time is the previous due time plus the period.
RearmFromDue(timer) == [timer EXCEPT !.next_time = timer.next_time + timer.period]

\* Timer.handle after wait_time: the handler is not passed to anything; the
\* next due time is the current time plus the period.
Rearm(timer) == [timer EXCEPT !.next_time = now + timer.period]

handle_rearm ==
    /\ tw_pc = "rearm"
    /\ current_timer' = Rearm(current_timer)
    /\ handled' = [handled EXCEPT ![current_timer.id] = @ + 1]
    /\ tw_pc' = "reinsert_lock"
    /\ UNCHANGED <<registryVars, flagVars, _timers, cvOwner, now,
                   adder_pc, pops, ret, mavInbox, poolVars>>

\* A wrong second block: the heap is touched without taking the lock.
timer_work_relock_skipped ==
    /\ tw_pc = "reinsert_lock"
    /\ tw_pc' = "reinsert"
    /\ UNCHANGED <<registryVars, flagVars, _timers, cvOwner, now, current_timer,
                   adder_pc, pops, handled, ret, mavInbox, poolVars>>

\* `with self._timers_cv:` (second block).
timer_work_relock ==
    /\ tw_pc = "reinsert_lock"
    /\ cvOwner = "none"
    /\ cvOwner' = "tw"
    /\ tw_pc' = "reinsert"
    /\ UNCHANGED <<registryVars, flagVars, _timers, now, current_timer,
                   adder_pc, pops, handled, ret, mavInbox, poolVars>>

\* heappush the entry back, notify (nobody waits: the only waiter is this
\* thread), leave the block; timer_work returns (the body is under `if`, not
\* `while`).
timer_work_reinsert ==
    /\ tw_pc = "reinsert"
    /\ _timers' = heappush(_timers, current_timer)
    /\ cvOwner' = "none"
    /\ tw_pc' = "done"
    /\ UNCHANGED <<registryVars, flagVars, now, current_timer,
                   adder_pc, pops, handled, ret, mavInbox, poolVars>>

\* The clock advances. The clock stops rather than let an add_timer in progress
\* construct a timer due after MaxTime.
Tick ==
    /\ now < MaxTime
    /\ \A a \in Adders : adder_pc[a].at = "locked" => now + 1 + adder_pc[a].period <= MaxTime
    /\ now' = now + 1
    /\ UNCHANGED <<registryVars, flagVars, _timers, cvOwner, tw_pc, current_timer,
                   adder_pc, pops, handled, ret, mavInbox, poolVars>>

TimerThread ==
    \/ timer_work_run
    \/ get_cont_val_lock
    \/ get_cont_val_return
    \/ timer_work_lock
    \/ timer_work_wait
    \/ timer_work_pop
    \/ wait_time
    \/ sleep_return
    \/ handle_rearm
    \/ timer_work_relock
    \/ timer_work_reinsert

AdderFinish == \E a \in Adders : add_timer_push(a)

EngineNext ==
    \/ start
    \/ with_statement
    \/ stop_lock
    \/ stop_set
    \/ \E a \in EngineAdders, p \in Periods, h \in Handlers : add_timer_lock(a, p, h)
    \/ AdderFinish
    \/ TimerThread
    \/ Tick

DispatchNext ==
    \/ \E t \in MsgTypes, h \in Handlers : push_handler(t, h)
    \/ \E t \in MsgTypes : pop_handler(t)
    \/ \E t \in MsgTypes \cup {None} : clear_handler(t)
    \/ \E t \in MsgTypes : transport_deliver(t)
    \/ start
    \/ with_statement
    \/ stop_lock
    \/ stop_set

RegistryNext ==
    \/ \E t \in MsgTypes, h \in Handlers : push_handler(t, h)
    \/ \E t \in MsgTypes : pop_handler(t)
    \/ \E t \in MsgTypes \cup {None} : clear_handler(t)

Init ==
    /\ _stacks = << >>
    /\ _timers = << >>
    /\ _continue = TRUE
    /\ continueOwner = "none"
    /\ cvOwner = "none"
    /\ now = 0
    /\ tw_pc = "idle"
    /\ current_timer = NoTimer
    /\ adder_pc = [a \in Adders |-> [at |-> "idle", period |-> 0, handler |-> "none"]]
    /\ stop_pc = "idle"
    /\ ret = [op |-> "none", err |-> "none"]
    /\ mavInbox = << >>
    /\ executor = "none"
    /\ submitted = << >>
    /\ pops = [a \in Adders |-> 0]
    /\ handled = [a \in Adders |-> 0]
    /\ lifoPushed = NoLog
    /\ lifoPopped = NoLog
    /\ lifoValid = [t \in MsgTypes |-> TRUE]

Next == RegistryNext \/ EngineNext \/ \E t \in MsgTypes : transport_deliver(t)

Spec == Init /\ [][Next]_vars

\* The registry alone.
RegistrySpec == Init /\ [][RegistryNext]_vars

\* The engine: lifecycle, add_timer callers, the timer_work thread, the clock.
EngineSpec == Init /\ [][EngineNext]_vars

\* The engine under a fair scheduler: the timer_work thread is not starved
\* (of the processor or of a lock that keeps being released), a call in
\* progress completes, and time passes.
FairEngineSpec ==
    /\ EngineSpec
    /\ SF_vars(TimerThread)
    /\ WF_vars(AdderFinish)
    /\ WF_vars(stop_set)
    /\ WF_vars(Tick)

\* The timer queue alone: every thread of Adders adds a timer, one thread runs
\* timer_work, the clock advances.
QueueNext ==
    \/ \E a \in Adders, p \in Periods : add_timer_lock(a, p, "h1")
    \/ AdderFinish
    \/ TimerThread
    \/ Tick

QueueSpec == Init /\ [][QueueNext]_vars

\* stop() beside a registry that is being filled and a timer queue in use.
StopFrameNext ==
    \/ \E t \in MsgTypes : push_handler(t, "h1")
    \/ \E a \in EngineAdders, p \in Periods : add_timer_lock(a, p, "h1")
    \/ AdderFinish
    \/ TimerThread
    \/ Tick
    \/ stop_lock
    \/ stop_set

StopFrameSpec == Init /\ [][StopFrameNext]_vars

\* Registry, lifecycle and transport, under the same fair scheduler.
FairDispatchSpec ==
    /\ Init /\ [][DispatchNext]_vars
    /\ WF_vars(stop_set)

\* ------------------------------------------------------------------ C1
\* C1: pushes on one message type, interleaved with pushes and pops on other
\* types, are popped in strict last-in-first-out order: the i-th pop after n
\* pushes returns the (n+1-i)-th pushed handler, and the (n+1)-th pop raises
\* KeyError.
C1_PopsAreLifo ==
    \A t \in MsgTypes :
        lifoValid[t] =>
            \A i \in 1..Len(lifoPopped[t]) :
                lifoPopped[t][i] =
                    IF i <= Len(lifoPushed[t])
                    THEN lifoPushed[t][Len(lifoPushed[t]) + 1 - i]
                    ELSE "KeyError"

\* Two different handlers pushed on HEARTBEAT, the other type used meanwhile,
\* and three pops made: two returned handlers and the third raised.
C1_Witness ==
    /\ lifoValid["HEARTBEAT"]
    /\ lifoPushed["HEARTBEAT"] = <<"h1", "hRaise">>
    /\ Len(lifoPopped["HEARTBEAT"]) = 3
    /\ lifoValid[""]
    /\ Len(lifoPushed[""]) > 0
    /\ Len(lifoPopped[""]) > 0

\* ------------------------------------------------------------------ C2
\* C2: clear_handler(t) on a registered type t (the empty string included)
\* removes exactly t's stack and leaves every other type's stack as it was.
C2_ClearOneType ==
    [][\A t \in MsgTypes :
          (t \in DOMAIN _stacks /\ clear_handler(t)) => _stacks' = Remove(_stacks, t)]_vars

\* ------------------------------------------------------------------ C3
\* C3: each re-arm of a timer sets its next due time to exactly the previous
\* due time plus its period, however late the re-arm happens.
C3_RearmByPeriod ==
    [][handle_rearm =>
          current_timer'.next_time = current_timer.next_time + current_timer.period]_vars

\* ------------------------------------------------------------------ C4
\* C4: while the engine is not stopped, every entry added by a completed
\* add_timer is eventually popped by timer_work, and once popped and
\* re-inserted it is eventually popped again.
C4_EveryEntryPopped ==
    \A a \in Adders : \A k \in {0, 1} :
        (adder_pc[a].at = "done" /\ pops[a] = k) ~> (pops[a] > k \/ ~_continue)

\* ------------------------------------------------------------------ C5
\* C5: once stop() has returned, the thread in timer_work eventually leaves
\* it, wherever the thread was at that moment.
C5_StopEndsLoop ==
    (~_continue /\ stop_pc = "idle") ~> (tw_pc \in {"idle", "done", "ValueError"})

\* ------------------------------------------------------------------ C6
\* C6: after start() the call has returned without error, the running flag is
\* true, and the timer_work thread and the worker pool are launched.
C6_StartLaunches ==
    ret.op = "start" =>
        /\ ret.err = "none"
        /\ _continue
        /\ tw_pc /= "idle"
        /\ executor /= "none"

\* ------------------------------------------------------------------ C7
\* C7: after a with-statement over the engine has ended, normally or by an
\* error raised in the body or during entry, the running flag is false.
C7_ScopeAlwaysStops ==
    ret.op = "with" => ~_continue

\* ------------------------------------------------------------------ C8
\* C8: for every due time of a timer that timer_work has handled, the timer's
\* handler was submitted to the worker pool exactly once.
SubmissionsFor(x) == Cardinality({k \in DOMAIN submitted : submitted[k].for = x})

C8_SubmittedOncePerDue ==
    \A a \in Adders : SubmissionsFor(a) = handled[a]

\* ------------------------------------------------------------------ C9
\* C9: when the started, running engine has a message of type t at its
\* transport, every handler in t's stack is eventually submitted to the worker
\* pool for that message, unless it leaves the stack or the engine is stopped
\* before the lookup.
InStack(h, t) == \E i \in DOMAIN StackOf(_stacks, t) : StackOf(_stacks, t)[i] = h

C9_ReceivedIsDispatched ==
    \A t \in MsgTypes : \A h \in Handlers :
        (/\ ret.op /= "none"
         /\ _continue
         /\ \E i \in DOMAIN mavInbox : mavInbox[i] = t
         /\ InStack(h, t))
        ~> (\/ \E k \in DOMAIN submitted : submitted[k] = [handler |-> h, for |-> t]
            \/ ~InStack(h, t)
            \/ ~_continue)

\* ------------------------------------------------------------------ C10
\* C10: a timer whose handler raises is still re-armed and re-inserted, and,
\* unless the engine is stopped, is fired again: timer_work pops it a second
\* time after its first re-arm.
C10_RaisingTimerFiresAgain ==
    \A a \in Adders :
        (adder_pc[a].handler \in RaisingHandlers /\ handled[a] = 1)
        ~> (pops[a] >= 2 \/ ~_continue)

\* ------------------------------------------------------------------ C11
\* C11: when timer_work reads the running flag as false, it returns at once:
\* it does not take the timer-queue lock, wait, pop or change the timer queue,
\* and having returned it does nothing more.
C11_StoppedLoopExits ==
    [][/\ (tw_pc = "cont_locked" /\ ~_continue /\ tw_pc' /= tw_pc) =>
            /\ tw_pc' = "done"
            /\ UNCHANGED <<_timers, cvOwner, pops, current_timer>>
       /\ (tw_pc = "done" => tw_pc' = "done")]_vars

\* timer_work has returned without ever popping, the engine is stopped and the
\* timer queue holds an entry it left alone.
C11_Witness ==
    /\ tw_pc = "done"
    /\ current_timer = NoTimer
    /\ ~_continue
    /\ _timers /= << >>

\* ------------------------------------------------------------------ C12
\* C12: when the popped entry's due time is already in the past, wait_time
\* raises no error: timer_work goes on to fire and re-arm the entry.
C12_PastDueNoError ==
    [][(tw_pc = "wait_time" /\ current_timer.next_time < now /\ tw_pc' /= tw_pc) =>
            tw_pc' \in {"sleeping", "rearm"}]_vars

\* ------------------------------------------------------------------ C13
\* C13: at every pop by timer_work, the entry removed is due no later than any
\* entry left in the timer queue; and after every insertion, re-insertion or
\* pop the entry at the head of the queue is due no later than any other.
C13_PopsTheEarliest ==
    [][/\ timer_work_pop =>
            \A i \in DOMAIN _timers' : current_timer'.next_time <= _timers'[i].next_time
       /\ \A i \in DOMAIN _timers' : _timers'[1].next_time <= _timers'[i].next_time]_vars

\* timer_work holds the entry it popped while three entries, one of them due
\* later, stay in the queue.
C13_Witness ==
    /\ tw_pc = "wait_time"
    /\ Len(_timers) = 3
    /\ \E i \in DOMAIN _timers : _timers[i].next_time > current_timer.next_time

\* ------------------------------------------------------------------ C14
\* The threads that are inside a `with self._timers_cv:` block.
InCvBlock ==
    {a \in Adders : adder_pc[a].at = "locked"}
        \cup (IF tw_pc \in {"wait_for", "reinsert"} THEN {"tw"} ELSE {})

CvExclusive ==
    /\ Cardinality(InCvBlock) <= 1
    /\ \A th \in InCvBlock : cvOwner = th
    /\ tw_pc \in {"wait_time", "sleeping", "rearm"} => cvOwner /= "tw"

\* C14: at most one thread is inside a block guarded by _timers_cv, and it holds
\* the lock; every change of the heap is made by the thread that holds the
\* lock; timer_work does not hold the lock while it sleeps toward a due time.
C14_HeapUnderLock ==
    [][/\ CvExclusive
       /\ CvExclusive'
       /\ _timers' /= _timers =>
             \/ cvOwner = "tw" /\ tw_pc' /= tw_pc
             \/ \E a \in Adders : cvOwner = a /\ adder_pc'[a] /= adder_pc[a]]_vars

\* timer_work sleeps toward a due time while an add_timer caller holds the lock.
C14_Witness ==
    /\ tw_pc = "sleeping"
    /\ cvOwner \in Adders
    /\ _timers /= << >>

\* ------------------------------------------------------------------ C15
\* C15: timer_work never pops from an empty timer queue; and when add_timer is
\* called before or while timer_work waits for the queue to be non-empty,
\* timer_work eventually pops an entry.
C15_NoMissedWakeup ==
    /\ [][pops' /= pops => _timers /= << >>]_vars
    /\ (/\ tw_pc \in {"cv_lock", "wait_for", "waiting", "notified"}
        /\ \E a \in Adders : adder_pc[a].at \in {"locked", "done"})
       ~> (\E a \in Adders : pops[a] > 0)

\* timer_work, blocked on the empty queue, has been notified by an insertion.
C15_Witness ==
    /\ tw_pc = "notified"
    /\ _timers /= << >>

\* ------------------------------------------------------------------ C16
\* C16: a timer added with an earlier due time while timer_work waits toward a
\* later one is fired first: when timer_work fires (re-arms) an entry, no entry
\* in the queue was due before it.
C16_EarlierFiresFirst ==
    [][handle_rearm =>
          \A i \in DOMAIN _timers : _timers[i].next_time >= current_timer.next_time]_vars

\* ------------------------------------------------------------------ C17
\* C17: a pop_handler call that fails (unknown type or empty stack) leaves the
\* registry as it was: the same types present, the same stacks.
C17_FailedPopChangesNothing ==
    [][\A t \in MsgTypes :
          (pop_handler(t) /\ StackOf(_stacks, t) = << >>) => _stacks' = _stacks]_vars

\* ------------------------------------------------------------------ C18
\* timer_work holds entry a between popping it and re-inserting it.
Held(a) ==
    /\ current_timer.id = a
    /\ tw_pc \in {"wait_time", "sleeping", "rearm", "reinsert_lock", "reinsert"}

InHeap(a) == Cardinality({i \in DOMAIN _timers : _timers[i].id = a})

\* C18: every entry of a completed add_timer is exactly once in the heap or
\* held by timer_work between its pop and its re-insertion, and no other
\* entry is.
C18_TimersConserved ==
    \A a \in Adders :
        InHeap(a) + (IF Held(a) THEN 1 ELSE 0) = (IF adder_pc[a].at = "done" THEN 1 ELSE 0)

\* ------------------------------------------------------------------ C19
\* C19: _continue is true at construction; it changes only in stop(), under
\* _continue_lock, and only to false; timer_work reads it holding the lock;
\* start() and the with-statement leave it as it is, so once false it stays
\* false.
C19_ContinueMonotone ==
    /\ _continue = TRUE
    /\ [][/\ _continue' /= _continue => (stop_set /\ continueOwner = "stop")
          /\ ~_continue => ~_continue'
          /\ (tw_pc = "cont_locked" /\ tw_pc' /= tw_pc) => continueOwner = "tw"
          /\ (start \/ with_statement) => _continue' = _continue]_vars

\* start() has been called on an engine that stop() has stopped.
C19_Witness ==
    /\ ~_continue
    /\ stop_pc = "idle"
    /\ ret.op = "start"

\* ------------------------------------------------------------------ C20
\* C20: stop() changes nothing but the running flag (and, while it runs,
\* _continue_lock): the registry, the timer queue and its lock, the timer
\* thread and the add_timer callers are as before; a stop() of a stopped
\* engine leaves the flag false and the lock free.
C20_StopFrame ==
    [][(stop_lock \/ stop_set) =>
          /\ UNCHANGED <<_stacks, _timers, cvOwner, tw_pc, current_timer, adder_pc,
                         now, pops, handled, ret, mavInbox, executor, submitted>>
          /\ ~_continue => ~_continue'
          /\ stop_set => (~_continue' /\ continueOwner' = "none" /\ stop_pc' = "idle")]_vars

\* A second stop() is in progress on a stopped engine while an add_timer caller
\* holds the timer-queue lock, with handlers registered and a timer queued.
C20_Witness ==
    /\ stop_pc = "locked"
    /\ ~_continue
    /\ cvOwner \in Adders
    /\ _timers /= << >>
    /\ "HEARTBEAT" \in DOMAIN _stacks

====
